---- MODULE Spec2Model ----
(***************************************************************************)
(* State-machine model of server.js: an Express application whose handlers *)
(* are async functions over a hosted relational store (supabase).  Every   *)
(* `await supabase...` is one atomic store call; between two awaits of one *)
(* request the handlers of other requests may run.                         *)
(***************************************************************************)
EXTENDS Integers, Sequences, FiniteSets, TLC

(***************************************************************************)
(* Bounds of the model.                                                    *)
(***************************************************************************)
MaxRequests == 2      \* requests received in one behaviour
MaxUpdates  == 2      \* length of a PATCH `updates` array
MaxSales    == 2      \* rows of the sales table, where they are drawn
MaxMenu     == 3      \* rows of the menu_items table, where they are drawn

Slots    == {1, 2}                \* requests in flight at the same time
Sessions == {"s1", "s2"}          \* session cookies
Emails   == {"a@x", "b@x", "c@x"}
Passwords == {"pw1", "pw2"}
Prices   == {5, 7}
Years    == {2026, 2027}          \* values of new Date().getFullYear()

NULL   == "null"                  \* SQL NULL / JS null / undefined
NoUser == [id |-> 0, email |-> NULL]   \* req.session.user is undefined

(***************************************************************************)
(* Strings that the code compares with <, <= or localeCompare are modelled *)
(* as sequences of characters.  Chars lists the characters used, in        *)
(* ascending code-unit order (' ' = 32, '(' = 40, ')' = 41, ',' = 44,      *)
(* '-' = 45, '0'..'9' = 48..57, 'a'.. = 97..).                             *)
(***************************************************************************)
Chars == << " ", "(", ")", ",", "-",
            "0", "1", "2", "3", "4", "5", "6", "7", "8", "9",
            "a", "b", "c", "d", "e", "f", "g" >>
Digits == << "0", "1", "2", "3", "4", "5", "6", "7", "8", "9" >>

CharCode(c) == CHOOSE i \in 1..Len(Chars) : Chars[i] = c

\* JS `a < b` on strings: lexicographic on code units, a proper prefix first.
RECURSIVE StrLess(_, _)
StrLess(a, b) ==
    IF b = << >> THEN FALSE
    ELSE IF a = << >> THEN TRUE
    ELSE IF CharCode(Head(a)) # CharCode(Head(b))
         THEN CharCode(Head(a)) < CharCode(Head(b))
         ELSE StrLess(Tail(a), Tail(b))

StrLeq(a, b) == a = b \/ StrLess(a, b)    \* JS `a <= b`
StrGeq(a, b) == ~ StrLess(a, b)           \* JS `a >= b`

\* Number -> decimal string, as a template literal `${n}` renders it.
DigitChar(d) == Digits[d + 1]
RECURSIVE NumToStr(_)
NumToStr(n) == IF n < 10 THEN << DigitChar(n) >>
               ELSE NumToStr(n \div 10) \o << DigitChar(n % 10) >>

\* Decimal string -> number, as the store reads an id out of a filter.
DigitValue(c) == (CHOOSE i \in 1..10 : Digits[i] = c) - 1
RECURSIVE StrToNum(_)
StrToNum(str) == IF str = << >> THEN 0
                 ELSE 10 * StrToNum(SubSeq(str, 1, Len(str) - 1))
                        + DigitValue(str[Len(str)])

\* Array.prototype.join(sep) on a list of strings.
RECURSIVE Join(_, _)
Join(list, sep) ==
    IF list = << >> THEN << >>
    ELSE IF Len(list) = 1 THEN list[1]
    ELSE list[1] \o sep \o Join(Tail(list), sep)

\* String.prototype.split(sep) for a one-character separator.
RECURSIVE Split(_, _)
Split(str, sep) ==
    IF \A i \in DOMAIN str : str[i] # sep THEN << str >>
    ELSE LET i == CHOOSE k \in DOMAIN str :
                     str[k] = sep /\ \A j \in 1..(k - 1) : str[j] # sep
         IN  << SubSeq(str, 1, i - 1) >>
                 \o Split(SubSeq(str, i + 1, Len(str)), sep)

\* String.prototype.trim()
RECURSIVE Trim(_)
Trim(str) ==
    IF str = << >> THEN str
    ELSE IF str[1] = " " THEN Trim(Tail(str))
    ELSE IF str[Len(str)] = " " THEN Trim(SubSeq(str, 1, Len(str) - 1))
    ELSE str

VARIABLES
    business_info,   \* table: id -> [email, password, address]
    products,        \* table: id_product -> [name, id_category, id_subcategory]
    menu_items,      \* table: id_menu_item -> [business_id, product_id, price]
    nextItemId,      \* serial of menu_items.id_menu_item
    sales,           \* table: set of [id_sale, menu_item_id, sold_at]
    session,         \* session store: cookie -> req.session.user
    req,             \* the handler invocations in flight, one per slot
    budget,          \* number of requests the behaviour may still receive
    logins           \* history: cookie -> ids stored by successful logins

vars == << business_info, products, menu_items, nextItemId, sales,
           session, req, budget, logins >>

(***************************************************************************)
(* Reference data: categories and subcategories are never written by the   *)
(* program.  Names are lower-case words, for which localeCompare and the   *)
(* store's ORDER BY agree with code-unit order.                            *)
(***************************************************************************)
categories    == ( 1 :> [category_name |-> <<"b", "e", "e", "f">>] )
              @@ ( 2 :> [category_name |-> <<"b", "e", "e">>] )
              @@ ( 3 :> [category_name |-> <<"c", "a", "f", "e">>] )
subcategories == ( 1 :> [id_category |-> 1, subcat_name |-> <<"a", "g", "e", "d">>] )
              @@ ( 2 :> [id_category |-> 2, subcat_name |-> <<"d", "a", "b">>] )

(***************************************************************************)
(* Generic helpers.                                                        *)
(***************************************************************************)
Range(s) == { s[i] : i \in DOMAIN s }

\* The orders in which the store may return a set of rows (no ORDER BY).
Orderings(S) ==
    { f \in [1..Cardinality(S) -> S] : \A i, j \in 1..Cardinality(S) :
                                           i # j => f[i] # f[j] }

\* The comparators handed to Array.prototype.sort: After(by, a, b) is
\* cmp(a, b) > 0, that is, a must come after b.
After(by, a, b) ==
    IF by = "id_menu_item"
    THEN a.id_menu_item - b.id_menu_item > 0         \* (a, b) => a.id - b.id
    ELSE StrLess(b.category, a.category)             \* a.category.localeCompare(b.category)

\* Array.prototype.sort(cmp): a stable sort.
RECURSIVE InsertStable(_, _, _)
InsertStable(sorted, x, by) ==
    IF sorted = << >> THEN << x >>
    ELSE IF After(by, sorted[Len(sorted)], x)
         THEN InsertStable(SubSeq(sorted, 1, Len(sorted) - 1), x, by)
                  \o << sorted[Len(sorted)] >>
         ELSE sorted \o << x >>

RECURSIVE StableSort(_, _)
StableSort(s, by) ==
    IF s = << >> THEN << >>
    ELSE InsertStable(StableSort(SubSeq(s, 1, Len(s) - 1), by), s[Len(s)], by)

(***************************************************************************)
(* The credential hasher (bcryptjs).                                       *)
(***************************************************************************)
hashSync(password) == << "bcrypt", password >>
compareSync(password, hash) == hash = hashSync(password)

(***************************************************************************)
(* Requests.  A slot holds one invocation of a handler: its position (pc), *)
(* the values it read from the request and the session before its first    *)
(* await, its local variables, and, once it is done, the response.         *)
(* `ops` counts the store calls the invocation has issued and `saw` keeps  *)
(* what its last store call returned.                                      *)
(***************************************************************************)
NoResp == [status |-> 0, msg |-> "", data |-> << >>]

Idle == [pc |-> "idle", kind |-> "none", sid |-> NULL, businessId |-> 0,
         email |-> NULL, password |-> NULL, address |-> << >>,
         menuItemId |-> 0,
         isArray |-> FALSE, updates |-> << >>, len |-> 0, issued |-> 0,
         product_id |-> 0, price |-> 0, takenIds |-> << >>,
         now |-> 0, lastYear |-> 0,
         ops |-> 0, saw |-> "nothing", resp |-> NoResp]

\* res.status(status).json(...): the handler returns.  Of a finished
\* invocation the slot keeps the request line (kind, cookie, credentials,
\* path id, clock), the response and the history fields; the handler's
\* locals are gone.
Reply(r, status, msg, data) ==
    [Idle EXCEPT !.pc = "done", !.kind = r.kind, !.sid = r.sid,
                 !.businessId = r.businessId, !.email = r.email,
                 !.password = r.password, !.menuItemId = r.menuItemId,
                 !.isArray = r.isArray, !.len = r.len, !.issued = r.issued,
                 !.now = r.now, !.lastYear = r.lastYear,
                 !.ops = r.ops, !.saw = r.saw,
                 !.resp = [status |-> status, msg |-> msg, data |-> data]]

Free(slot) == req[slot].pc \in {"idle", "done"}

\* A request arrives and is given the lowest free slot.
Receive(slot) ==
    /\ budget > 0
    /\ Free(slot)
    /\ \A t \in Slots : t < slot => ~ Free(t)
    /\ budget' = budget - 1

New(kind, sid, pc) == [Idle EXCEPT !.kind = kind, !.sid = sid, !.pc = pc]

\* Faulty variant: the middleware lets every request through.
isAuthenticated_Always(user) == TRUE

\* function isAuthenticated(req, res, next)
isAuthenticated(user) == user # NoUser

\* Every route registered with the isAuthenticated middleware: `next` is the
\* handler's state at its first await, reached only with a session user.
Guarded(slot, next) ==
    /\ Receive(slot)
    /\ req' = [req EXCEPT ![slot] =
                 IF isAuthenticated(session[next.sid])
                 THEN [next EXCEPT !.businessId = session[next.sid].id]
                 ELSE Reply(New(next.kind, next.sid, "done"), 401,
                            "Not authenticated", << >>)]

Tables == << business_info, products, menu_items, nextItemId, sales >>

(***************************************************************************)
(* POST /api/complete-onboarding                                           *)
(***************************************************************************)
Onboarding_Receive(slot, sid, email, password, address) ==
    /\ Receive(slot)
    /\ req' = [req EXCEPT ![slot] =
                 LET r == [New("complete-onboarding", sid, "insert_business")
                             EXCEPT !.email = email, !.password = password,
                                    !.address = address]
                 IN  IF address = << >> \/ email = NULL \/ password = NULL
                     THEN Reply(r, 400, "Missing required fields", << >>)
                     ELSE r]
    /\ UNCHANGED << Tables, session, logins >>

Onboarding_Insert(slot) ==
    /\ req[slot].kind = "complete-onboarding"
    /\ req[slot].pc = "insert_business"
    /\ \E fails \in BOOLEAN :
         LET r     == [req[slot] EXCEPT !.ops = @ + 1]
             taken == \E b \in DOMAIN business_info :
                         business_info[b].email = r.email
             id    == Cardinality(DOMAIN business_info) + 1
         IN  IF fails \/ taken
             THEN /\ req' = [req EXCEPT ![slot] =
                               Reply(r, 500, "error.message", << >>)]
                  /\ UNCHANGED business_info
             ELSE /\ business_info' = business_info @@
                        ( id :> [email    |-> r.email,
                                 password |-> hashSync(r.password),
                                 address  |-> r.address] )
                  /\ req' = [req EXCEPT ![slot] =
                               Reply(r, 200, "success", << id >>)]
    /\ UNCHANGED << products, menu_items, nextItemId, sales, session,
                    budget, logins >>

(***************************************************************************)
(* POST /api/login                                                         *)
(***************************************************************************)
Login_Receive(slot, sid, email, password) ==
    /\ Receive(slot)
    /\ req' = [req EXCEPT ![slot] =
                 [New("login", sid, "select_user")
                    EXCEPT !.email = email, !.password = password]]
    /\ UNCHANGED << Tables, session, logins >>

\* Faulty variant: the password is not compared.
Login_Outcome_NoCompare(fails, found, password) ==
    IF fails \/ Cardinality(found) > 1 THEN "error"
    ELSE IF found = {} THEN "no user"
    ELSE "ok"

\* What the handler answers once the select has returned `found` rows.
Login_Outcome(fails, found, password) ==
    IF fails \/ Cardinality(found) > 1 THEN "error"
    ELSE IF found = {} THEN "no user"
    ELSE IF ~ compareSync(password,
                          business_info[CHOOSE b \in found : TRUE].password)
         THEN "wrong password"
         ELSE "ok"

Login_SelectUser(slot) ==
    /\ req[slot].kind = "login"
    /\ req[slot].pc = "select_user"
    /\ \E fails \in BOOLEAN :
         LET r     == [req[slot] EXCEPT !.ops = @ + 1]
             found == { b \in DOMAIN business_info :
                          business_info[b].email = r.email }
             out   == Login_Outcome(fails, found, r.password)
             id    == CHOOSE b \in found : TRUE
             s     == [r EXCEPT !.saw = IF fails THEN "error"
                                        ELSE IF found = {} THEN "no row"
                                        ELSE "row"]
         IN  CASE out = "error" ->
                    /\ req' = [req EXCEPT ![slot] =
                                 Reply(s, 500, "Database error", << >>)]
                    /\ UNCHANGED << session, logins >>
               [] out = "no user" ->
                    /\ req' = [req EXCEPT ![slot] =
                                 Reply(s, 401, "Invalid credentials", << >>)]
                    /\ UNCHANGED << session, logins >>
               [] out = "wrong password" ->
                    /\ req' = [req EXCEPT ![slot] =
                                 Reply(s, 401, "Invalid credentials", << >>)]
                    /\ UNCHANGED << session, logins >>
               [] out = "ok" ->
                    /\ session' = [session EXCEPT ![r.sid] =
                                     [id    |-> id,
                                      email |-> business_info[id].email]]
                    /\ logins' = [logins EXCEPT ![r.sid] = @ \cup {id}]
                    /\ req' = [req EXCEPT ![slot] =
                                 Reply(s, 200, "success", << id >>)]
    /\ UNCHANGED << Tables, budget >>

(***************************************************************************)
(* GET /api/user                                                           *)
(***************************************************************************)
User_Receive(slot, sid) ==
    /\ Guarded(slot, Reply(New("user", sid, "done"), 200, "user",
                           << session[sid] >>))
    /\ UNCHANGED << Tables, session, logins >>

(***************************************************************************)
(* The store's joins.  A nullable embedded row is a sequence of zero or    *)
(* one rows.  Columns the handlers only copy into the response (brand,     *)
(* created_at, production city and country, the product flags, season)     *)
(* are left out of the rows.                                               *)
(***************************************************************************)
ItemsOf(businessId) ==            \* .eq('business_id', businessId)
    { m \in DOMAIN menu_items : menu_items[m].business_id = businessId }

SalesOf(m) == { s \in sales : s.menu_item_id = m }

\* sales(sold_at): the embedded sales of one menu item, as a list.
RECURSIVE SalesList(_)
SalesList(S) ==
    IF S = {} THEN << >>
    ELSE LET s == CHOOSE x \in S : \A y \in S : x.id_sale <= y.id_sale
         IN  << [sold_at |-> s.sold_at] >> \o SalesList(S \ {s})

\* products ( name, categories ( category_name ), subcategories ( subcat_name ) )
EmbeddedProduct(p) ==
    [id_product    |-> p,
     name          |-> products[p].name,
     id_category   |-> products[p].id_category,
     categories    |-> [category_name |->
                          categories[products[p].id_category].category_name],
     subcategories |-> IF products[p].id_subcategory = 0 THEN << >>
                       ELSE << [subcat_name |->
                          subcategories[products[p].id_subcategory].subcat_name] >>]

\* One menu_items row with its embedded product and sales.
JoinedRow(m) ==
    [id_menu_item |-> m,
     price        |-> menu_items[m].price,
     products     |-> EmbeddedProduct(menu_items[m].product_id),
     sales        |-> SalesList(SalesOf(m))]

\* sub?.subcat_name ?? ''
SubcatName(sub) == IF sub = << >> THEN << >> ELSE sub[1].subcat_name

(***************************************************************************)
(* GET /api/menu-items                                                     *)
(***************************************************************************)
MenuItems_Receive(slot, sid) ==
    /\ Guarded(slot, New("menu-items", sid, "select_menu_items"))
    /\ UNCHANGED << Tables, session, logins >>

flattened(mi) ==
    [id_menu_item |-> mi.id_menu_item,
     price        |-> mi.price,
     item_name    |-> mi.products.name,
     category     |-> mi.products.categories.category_name,
     subcategory  |-> SubcatName(mi.products.subcategories)]

MenuItems_Select(slot) ==
    /\ req[slot].kind = "menu-items"
    /\ req[slot].pc = "select_menu_items"
    /\ \E fails \in BOOLEAN, rows \in Orderings(ItemsOf(req[slot].businessId)) :
         LET r == [req[slot] EXCEPT !.ops = @ + 1]
         IN  req' = [req EXCEPT ![slot] =
                IF fails THEN Reply(r, 500, "error.message", << >>)
                ELSE Reply(r, 200, "rows",
                           [i \in DOMAIN rows |-> flattened(JoinedRow(rows[i]))])]
    /\ UNCHANGED << Tables, session, budget, logins >>

(***************************************************************************)
(* DELETE /api/menu-items/:id                                              *)
(***************************************************************************)
Delete_Receive(slot, sid, id) ==
    /\ Guarded(slot, [New("delete", sid, "delete_sales")
                        EXCEPT !.menuItemId = id])
    /\ UNCHANGED << Tables, session, logins >>

\* Faulty variant: the sales are not deleted.
Delete_SalesMatched_None(menuItemId) == {}

\* .from('sales').delete().eq('menu_item_id', menuItemId)
Delete_SalesMatched(menuItemId) ==
    { s \in sales : s.menu_item_id = menuItemId }

Delete_Sales(slot) ==
    /\ req[slot].kind = "delete"
    /\ req[slot].pc = "delete_sales"
    /\ \E fails \in BOOLEAN :
         LET r == [req[slot] EXCEPT !.ops = @ + 1]
         IN  IF fails
             THEN /\ req' = [req EXCEPT ![slot] =
                      Reply([r EXCEPT !.saw = "error"], 500,
                            "Failed deleting sales", << >>)]
                  /\ UNCHANGED sales
             ELSE /\ sales' = sales \ Delete_SalesMatched(r.menuItemId)
                  /\ req' = [req EXCEPT ![slot] =
                               [r EXCEPT !.pc = "delete_menu_item"]]
    /\ UNCHANGED << business_info, products, menu_items, nextItemId,
                    session, budget, logins >>

\* Faulty variant: the delete matches on the id alone.
Delete_ItemsMatched_ById(menuItemId, businessId) ==
    { m \in DOMAIN menu_items : m = menuItemId }

\* .match({ id_menu_item: menuItemId, business_id: businessId })
Delete_ItemsMatched(menuItemId, businessId) ==
    { m \in DOMAIN menu_items :
        m = menuItemId /\ menu_items[m].business_id = businessId }

Delete_MenuItem(slot) ==
    /\ req[slot].kind = "delete"
    /\ req[slot].pc = "delete_menu_item"
    /\ \E fails \in BOOLEAN :
         LET r       == [req[slot] EXCEPT !.ops = @ + 1]
             matched == Delete_ItemsMatched(r.menuItemId, r.businessId)
             count   == Cardinality(matched)
         IN  IF fails
             THEN /\ req' = [req EXCEPT ![slot] =
                      Reply([r EXCEPT !.saw = "error"], 500,
                            "Failed deleting menu item", << >>)]
                  /\ UNCHANGED menu_items
             ELSE /\ menu_items' =
                       [m \in DOMAIN menu_items \ matched |-> menu_items[m]]
                  /\ req' = [req EXCEPT ![slot] =
                       IF count = 0
                       THEN Reply([r EXCEPT !.saw = "no row"], 404,
                                  "Item not found or no rights", << >>)
                       ELSE Reply([r EXCEPT !.saw = "row"], 200,
                                  "success", << >>)]
    /\ UNCHANGED << business_info, products, nextItemId, sales,
                    session, budget, logins >>

(***************************************************************************)
(* PATCH /api/menu-items                                                   *)
(***************************************************************************)
Patch_Receive(slot, sid, isArray, updates) ==
    /\ Guarded(slot,
         LET r == [New("patch", sid, "update_price")
                     EXCEPT !.isArray = isArray, !.updates = updates,
                            !.len = Len(updates)]
         IN  IF ~ isArray THEN Reply(r, 400, "Invalid payload", << >>)
             ELSE IF updates = << >> THEN Reply(r, 200, "success", << >>)
             ELSE r)
    /\ UNCHANGED << Tables, session, logins >>

\* Faulty variant: one store statement reprices every row of the business.
Patch_Updated_WholeMenu(u, businessId) ==
    [m \in DOMAIN menu_items |->
        IF menu_items[m].business_id = businessId
        THEN [menu_items[m] EXCEPT !.price = u.price]
        ELSE menu_items[m]]

\* .update({ price }).match({ id_menu_item, business_id: businessId })
Patch_Updated(u, businessId) ==
    [m \in DOMAIN menu_items |->
        IF m = u.id_menu_item /\ menu_items[m].business_id = businessId
        THEN [menu_items[m] EXCEPT !.price = u.price]
        ELSE menu_items[m]]

\* Faulty variant: the error of the store call is not looked at.
Patch_Continue_IgnoringError(r, error) ==
    IF r.issued = Len(r.updates) THEN Reply(r, 200, "success", << >>)
    ELSE r

\* The loop after the store call for the element just issued has returned:
\* `if (error) throw error` lands in the catch block, the end of the list
\* in res.json({ success: true }), anything else in the next iteration.
Patch_Continue(r, error) ==
    IF error THEN Reply(r, 500, "Failed updating prices", << >>)
    ELSE IF r.issued = Len(r.updates) THEN Reply(r, 200, "success", << >>)
    ELSE r

Patch_Update(slot) ==
    /\ req[slot].kind = "patch"
    /\ req[slot].pc = "update_price"
    /\ \E fails \in BOOLEAN :
         LET r == [req[slot] EXCEPT !.ops = @ + 1, !.issued = @ + 1,
                                    !.saw = IF fails THEN "error" ELSE "ok"]
         IN  /\ menu_items' = IF fails THEN menu_items
                              ELSE Patch_Updated(r.updates[r.issued],
                                                 r.businessId)
             /\ req' = [req EXCEPT ![slot] = Patch_Continue(r, fails)]
    /\ UNCHANGED << business_info, products, nextItemId, sales,
                    session, budget, logins >>

(***************************************************************************)
(* POST /api/menu-items                                                    *)
(***************************************************************************)
Post_Receive(slot, sid, product_id, price) ==
    /\ Guarded(slot, [New("post", sid, "insert_menu_item")
                        EXCEPT !.product_id = product_id, !.price = price])
    /\ UNCHANGED << Tables, session, logins >>

Post_Insert(slot) ==
    /\ req[slot].kind = "post"
    /\ req[slot].pc = "insert_menu_item"
    /\ \E fails \in BOOLEAN :
         LET r == [req[slot] EXCEPT !.ops = @ + 1]
         IN  IF fails \/ r.product_id \notin DOMAIN products
             THEN /\ req' = [req EXCEPT ![slot] =
                               Reply(r, 500, "Database error", << >>)]
                  /\ UNCHANGED << menu_items, nextItemId >>
             ELSE /\ menu_items' = menu_items @@
                        ( nextItemId :> [business_id |-> r.businessId,
                                         product_id  |-> r.product_id,
                                         price       |-> r.price] )
                  /\ nextItemId' = nextItemId + 1
                  /\ req' = [req EXCEPT ![slot] =
                               Reply(r, 200, "success", << nextItemId >>)]
    /\ UNCHANGED << business_info, products, sales, session, budget,
                    logins >>

(***************************************************************************)
(* ORDER BY of the store: any enumeration of the rows that ascends in the  *)
(* key (rows with equal keys come in either order).                        *)
(***************************************************************************)
OrderedBy(S, key) ==
    { f \in Orderings(S) :
        \A i, j \in DOMAIN f : i < j => StrLeq(key[f[i]], key[f[j]]) }

(***************************************************************************)
(* GET /api/products, /api/categories, /api/subcategories                  *)
(***************************************************************************)
Products_Receive(slot, sid) ==
    /\ Guarded(slot, New("products", sid, "select_products"))
    /\ UNCHANGED << Tables, session, logins >>

Products_Select(slot) ==
    /\ req[slot].kind = "products"
    /\ req[slot].pc = "select_products"
    /\ \E fails \in BOOLEAN,
          rows \in OrderedBy(DOMAIN products,
                             [p \in DOMAIN products |-> products[p].name]) :
         LET r == [req[slot] EXCEPT !.ops = @ + 1]
         IN  req' = [req EXCEPT ![slot] =
                IF fails THEN Reply(r, 500, "Database error", << >>)
                ELSE Reply(r, 200, "rows",
                       [i \in DOMAIN rows |->
                          [id_product     |-> rows[i],
                           name           |-> products[rows[i]].name,
                           id_category    |-> products[rows[i]].id_category,
                           id_subcategory |-> products[rows[i]].id_subcategory]])]
    /\ UNCHANGED << Tables, session, budget, logins >>

Categories_Receive(slot, sid) ==
    /\ Guarded(slot, New("categories", sid, "select_categories"))
    /\ UNCHANGED << Tables, session, logins >>

Categories_Select(slot) ==
    /\ req[slot].kind = "categories"
    /\ req[slot].pc = "select_categories"
    /\ \E fails \in BOOLEAN,
          rows \in OrderedBy(DOMAIN categories,
                     [c \in DOMAIN categories |-> categories[c].category_name]) :
         LET r == [req[slot] EXCEPT !.ops = @ + 1]
         IN  req' = [req EXCEPT ![slot] =
                IF fails THEN Reply(r, 500, "Database error", << >>)
                ELSE Reply(r, 200, "rows",
                       [i \in DOMAIN rows |->
                          [id_category   |-> rows[i],
                           category_name |-> categories[rows[i]].category_name]])]
    /\ UNCHANGED << Tables, session, budget, logins >>

Subcategories_Receive(slot, sid) ==
    /\ Guarded(slot, New("subcategories", sid, "select_subcategories"))
    /\ UNCHANGED << Tables, session, logins >>

Subcategories_Select(slot) ==
    /\ req[slot].kind = "subcategories"
    /\ req[slot].pc = "select_subcategories"
    /\ \E fails \in BOOLEAN,
          rows \in OrderedBy(DOMAIN subcategories,
                     [c \in DOMAIN subcategories |-> subcategories[c].subcat_name]) :
         LET r == [req[slot] EXCEPT !.ops = @ + 1]
         IN  req' = [req EXCEPT ![slot] =
                IF fails THEN Reply(r, 500, "Database error", << >>)
                ELSE Reply(r, 200, "rows",
                       [i \in DOMAIN rows |->
                          [id_subcat   |-> rows[i],
                           id_category |-> subcategories[rows[i]].id_category,
                           subcat_name |-> subcategories[rows[i]].subcat_name]])]
    /\ UNCHANGED << Tables, session, budget, logins >>

(***************************************************************************)
(* GET /api/sales                                                          *)
(***************************************************************************)
Sales_Receive(slot, sid) ==
    /\ Guarded(slot, New("sales", sid, "select_sales"))
    /\ UNCHANGED << Tables, session, logins >>

\* Faulty variant: the window excludes its first and last day.
SoldBetween_Exclusive(salesList, start, end) ==
    Len(SelectSeq(salesList,
                  LAMBDA s : StrLess(start, s.sold_at) /\ StrLess(s.sold_at, end)))

\* mi.sales.filter(s => s.sold_at >= start && s.sold_at <= end).length
SoldBetween(salesList, start, end) ==
    Len(SelectSeq(salesList,
                  LAMBDA s : StrGeq(s.sold_at, start) /\ StrLeq(s.sold_at, end)))

Sales_stats(mi) ==
    LET thisYear == SoldBetween(mi.sales,
                        << "2", "0", "2", "5", "-", "0", "1", "-", "0", "1" >>,
                        << "2", "0", "2", "5", "-", "1", "2", "-", "3", "1" >>)
        lastYear == SoldBetween(mi.sales,
                        << "2", "0", "2", "4", "-", "0", "1", "-", "0", "1" >>,
                        << "2", "0", "2", "4", "-", "1", "2", "-", "3", "1" >>)
    IN  [id_menu_item   |-> mi.id_menu_item,
         item_name      |-> mi.products.name,
         category       |-> mi.products.categories.category_name,
         subcategory    |-> SubcatName(mi.products.subcategories),
         price          |-> mi.price,
         total_sold     |-> thisYear,
         last_year_sold |-> lastYear]

Sales_Select(slot) ==
    /\ req[slot].kind = "sales"
    /\ req[slot].pc = "select_sales"
    /\ \E fails \in BOOLEAN, rows \in Orderings(ItemsOf(req[slot].businessId)) :
         LET r == [req[slot] EXCEPT !.ops = @ + 1]
         IN  req' = [req EXCEPT ![slot] =
                IF fails THEN Reply(r, 500, "Database error", << >>)
                ELSE Reply(r, 200, "rows",
                       [i \in DOMAIN rows |-> Sales_stats(JoinedRow(rows[i]))])]
    /\ UNCHANGED << Tables, session, budget, logins >>

(***************************************************************************)
(* GET /api/business-info                                                  *)
(***************************************************************************)
BusinessInfo_Receive(slot, sid) ==
    /\ Guarded(slot, New("business-info", sid, "select_address"))
    /\ UNCHANGED << Tables, session, logins >>

BusinessInfo_city(address) ==
    LET split == Split(address, ",")
        parts == [i \in DOMAIN split |-> Trim(split[i])]
    IN  IF Len(parts) > 1 THEN parts[Len(parts)] ELSE << >>

BusinessInfo_Select(slot) ==
    /\ req[slot].kind = "business-info"
    /\ req[slot].pc = "select_address"
    /\ \E fails \in BOOLEAN :
         LET r == [req[slot] EXCEPT !.ops = @ + 1]
         IN  req' = [req EXCEPT ![slot] =
                \* .single() reports a missing row as an error
                IF fails \/ r.businessId \notin DOMAIN business_info
                THEN Reply(r, 500, "Database error", << >>)
                ELSE Reply(r, 200, "city",
                       << [city    |-> BusinessInfo_city(
                                         business_info[r.businessId].address),
                           country |-> << >>] >>)]
    /\ UNCHANGED << Tables, session, budget, logins >>

(***************************************************************************)
(* GET /api/sales/last-year                                                *)
(***************************************************************************)
\* `year` is what new Date().getFullYear() returns when the request runs.
LastYear_Receive(slot, sid, year) ==
    /\ Guarded(slot, [New("sales/last-year", sid, "select_last_year")
                        EXCEPT !.now = year, !.lastYear = year - 1])
    /\ UNCHANGED << Tables, session, logins >>

\* Faulty variant: the subcategory is joined as in GET /api/sales (left join).
LastYear_Rows_LeftJoin(businessId) == ItemsOf(businessId)

\* products!inner( ..., subcategories!inner(subcat_name) ): the inner join
\* keeps only the menu items whose product has a subcategory.
LastYear_Rows(businessId) ==
    { m \in ItemsOf(businessId) :
        products[menu_items[m].product_id].id_subcategory # 0 }

LastYear_stats(mi, start, end) ==
    [id_menu_item |-> mi.id_menu_item,
     id_category  |-> mi.products.id_category,
     item_name    |-> mi.products.name,
     category     |-> mi.products.categories.category_name,
     subcategorie |-> SubcatName(mi.products.subcategories),
     price        |-> mi.price,
     total_sold   |-> SoldBetween(mi.sales, start, end)]

LastYear_Select(slot) ==
    /\ req[slot].kind = "sales/last-year"
    /\ req[slot].pc = "select_last_year"
    /\ \E fails \in BOOLEAN, rows \in Orderings(LastYear_Rows(req[slot].businessId)) :
         LET r     == [req[slot] EXCEPT !.ops = @ + 1]
             start == NumToStr(r.lastYear) \o << "-", "0", "1", "-", "0", "1" >>
             end   == NumToStr(r.lastYear) \o << "-", "1", "2", "-", "3", "1" >>
             stats == [i \in DOMAIN rows |->
                         LastYear_stats(JoinedRow(rows[i]), start, end)]
         IN  req' = [req EXCEPT ![slot] =
                IF fails THEN Reply(r, 500, "Database error", << >>)
                ELSE Reply(r, 200, "rows", StableSort(stats, "id_menu_item"))]
    /\ UNCHANGED << Tables, session, budget, logins >>

(***************************************************************************)
(* GET /api/items-not-on-menu                                              *)
(***************************************************************************)
NotOnMenu_Receive(slot, sid) ==
    /\ Guarded(slot, New("items-not-on-menu", sid, "select_taken"))
    /\ UNCHANGED << Tables, session, logins >>

NotOnMenu_SelectTaken(slot) ==
    /\ req[slot].kind = "items-not-on-menu"
    /\ req[slot].pc = "select_taken"
    /\ \E fails \in BOOLEAN, rows \in Orderings(ItemsOf(req[slot].businessId)) :
         LET r == [req[slot] EXCEPT !.ops = @ + 1]
         IN  req' = [req EXCEPT ![slot] =
                IF fails
                THEN Reply(r, 500, "Database error fetching menu items", << >>)
                ELSE [r EXCEPT !.pc = "select_not_taken",
                               !.takenIds = [i \in DOMAIN rows |->
                                               menu_items[rows[i]].product_id]]]
    /\ UNCHANGED << Tables, session, budget, logins >>

\* `(${takenIds.join(',')})`
NotOnMenu_filter(takenIds) ==
    << "(" >> \o Join([i \in DOMAIN takenIds |-> NumToStr(takenIds[i])], << "," >>)
             \o << ")" >>

\* The store reads the list of a `not.in.(...)` filter: the text between the
\* parentheses, split at the commas; nothing between them is the empty list.
Store_InList(filter) ==
    LET inner == SubSeq(filter, 2, Len(filter) - 1)
    IN  IF inner = << >> THEN {}
        ELSE { StrToNum(x) : x \in Range(Split(inner, ",")) }

\* Faulty variant: an empty exclusion list matches no product.
NotOnMenu_Rows_EmptyMatchesNone(filter) ==
    IF Store_InList(filter) = {} THEN {}
    ELSE { p \in DOMAIN products : p \notin Store_InList(filter) }

\* .not('id_product', 'in', filter)
NotOnMenu_Rows(filter) == { p \in DOMAIN products : p \notin Store_InList(filter) }

NotOnMenu_SelectProducts(slot) ==
    /\ req[slot].kind = "items-not-on-menu"
    /\ req[slot].pc = "select_not_taken"
    /\ \E fails \in BOOLEAN,
          rows \in OrderedBy(NotOnMenu_Rows(NotOnMenu_filter(req[slot].takenIds)),
                             [p \in DOMAIN products |-> products[p].name]) :
         LET r == [req[slot] EXCEPT !.ops = @ + 1]
         IN  req' = [req EXCEPT ![slot] =
                IF fails
                THEN Reply(r, 500, "Database error fetching products", << >>)
                ELSE Reply(r, 200, "rows",
                       [i \in DOMAIN rows |->
                          [id       |-> rows[i],
                           name     |-> products[rows[i]].name,
                           category |-> categories[products[rows[i]].id_category]
                                            .category_name]])]
    /\ UNCHANGED << Tables, session, budget, logins >>

(***************************************************************************)
(* GET /api/menu-counts                                                    *)
(***************************************************************************)
MenuCounts_Receive(slot, sid) ==
    /\ Guarded(slot, New("menu-counts", sid, "select_counts"))
    /\ UNCHANGED << Tables, session, logins >>

\* items.reduce((acc, mi) => { acc[cat] = (acc[cat] || 0) + 1 }, {}) followed
\* by Object.entries(...).map(...): the entries, in the order the keys were
\* first written.
RECURSIVE MenuCounts_reduce(_, _)
MenuCounts_reduce(acc, items) ==
    IF items = << >> THEN acc
    ELSE LET cat == Head(items).products.categories.category_name
         IN  MenuCounts_reduce(
               IF \E i \in DOMAIN acc : acc[i].category = cat
               THEN [i \in DOMAIN acc |->
                       IF acc[i].category = cat
                       THEN [acc[i] EXCEPT !.count_on_menu = @ + 1]
                       ELSE acc[i]]
               ELSE acc \o << [category |-> cat, count_on_menu |-> 1] >>,
               Tail(items))

\* Faulty variant: the entries are not sorted.
MenuCounts_results_Unsorted(items) == MenuCounts_reduce(<< >>, items)

MenuCounts_results(items) ==
    StableSort(MenuCounts_reduce(<< >>, items), "category")

MenuCounts_Select(slot) ==
    /\ req[slot].kind = "menu-counts"
    /\ req[slot].pc = "select_counts"
    /\ \E fails \in BOOLEAN, rows \in Orderings(ItemsOf(req[slot].businessId)) :
         LET r     == [req[slot] EXCEPT !.ops = @ + 1]
             items == [i \in DOMAIN rows |-> JoinedRow(rows[i])]
         IN  req' = [req EXCEPT ![slot] =
                IF fails THEN Reply(r, 500, "Database error", << >>)
                ELSE Reply(r, 200, "rows", MenuCounts_results(items))]
    /\ UNCHANGED << Tables, session, budget, logins >>

(***************************************************************************)
(* The application after start-up: two businesses have been onboarded,     *)
(* each has one product on its menu with one sale, nobody is logged in.    *)
(***************************************************************************)
Date(year, monthDay) == NumToStr(year) \o << "-" >> \o monthDay
Jan01 == << "0", "1", "-", "0", "1" >>
Jun15 == << "0", "6", "-", "1", "5" >>
Dec31 == << "1", "2", "-", "3", "1" >>

Addresses == { << "a", "b", " ", "5", ",", " ", "c", "d" >>, << >> }

Catalog ==
    ( 1 :> [name |-> << "c", "a", "b" >>, id_category |-> 1, id_subcategory |-> 1] )
 @@ ( 2 :> [name |-> << "a", "d", "e" >>, id_category |-> 1, id_subcategory |-> 0] )
 @@ ( 3 :> [name |-> << "b", "a", "g" >>, id_category |-> 2, id_subcategory |-> 2] )

Registered ==
    ( 1 :> [email |-> "a@x", password |-> hashSync("pw1"),
            address |-> << "a", "b", " ", "5", ",", " ", "c", "d" >>] )
 @@ ( 2 :> [email |-> "b@x", password |-> hashSync("pw2"),
            address |-> << "e", "f" >>] )

Init ==
    /\ business_info = Registered
    /\ products = Catalog
    /\ menu_items = ( 1 :> [business_id |-> 1, product_id |-> 1, price |-> 5] )
                 @@ ( 2 :> [business_id |-> 2, product_id |-> 2, price |-> 5] )
    /\ nextItemId = 3
    /\ sales = { [id_sale |-> 1, menu_item_id |-> 1, sold_at |-> Date(2025, Jun15)],
                 [id_sale |-> 2, menu_item_id |-> 2, sold_at |-> Date(2025, Jan01)] }
    /\ session = [s \in Sessions |-> NoUser]
    /\ req = [slot \in Slots |-> Idle]
    /\ budget = MaxRequests
    /\ logins = [s \in Sessions |-> {}]

(***************************************************************************)
(* What a client may send.                                                 *)
(***************************************************************************)
\* ids a client may name: every id handed out so far and the next one
ClientIds == 1..nextItemId

PatchPrices == {7}

\* ids a PATCH may name: an item of business 1 and an item of business 2
\* (either may have been deleted by the time the update is issued)
PatchIds == {1, 2}

UpdateLists(prices) ==
    UNION { [1..n -> [id_menu_item : PatchIds, price : prices]] :
              n \in 0..MaxUpdates }

Next ==
    \/ \E slot \in Slots, email \in {"a@x", "c@x", NULL},
          password \in {"pw1", NULL}, address \in Addresses :
         Onboarding_Receive(slot, "s1", email, password, address)
    \/ \E slot \in Slots : Onboarding_Insert(slot)
    \/ \E slot \in Slots, sid \in Sessions, email \in Emails,
          password \in Passwords :
         Login_Receive(slot, sid, email, password)
    \/ \E slot \in Slots : Login_SelectUser(slot)
    \/ \E slot \in Slots, sid \in Sessions : User_Receive(slot, sid)
    \/ \E slot \in Slots, sid \in Sessions : MenuItems_Receive(slot, sid)
    \/ \E slot \in Slots : MenuItems_Select(slot)
    \/ \E slot \in Slots, sid \in Sessions, id \in ClientIds :
         Delete_Receive(slot, sid, id)
    \/ \E slot \in Slots : Delete_Sales(slot)
    \/ \E slot \in Slots : Delete_MenuItem(slot)
    \/ \E slot \in Slots, sid \in Sessions :
         \/ Patch_Receive(slot, sid, FALSE, << >>)
         \/ \E updates \in UpdateLists(PatchPrices) :
              Patch_Receive(slot, sid, TRUE, updates)
    \/ \E slot \in Slots : Patch_Update(slot)
    \/ \E slot \in Slots, sid \in Sessions,
          product_id \in DOMAIN products \cup {0}, price \in Prices :
         Post_Receive(slot, sid, product_id, price)
    \/ \E slot \in Slots : Post_Insert(slot)
    \/ \E slot \in Slots, sid \in Sessions : Products_Receive(slot, sid)
    \/ \E slot \in Slots : Products_Select(slot)
    \/ \E slot \in Slots, sid \in Sessions : Categories_Receive(slot, sid)
    \/ \E slot \in Slots : Categories_Select(slot)
    \/ \E slot \in Slots, sid \in Sessions : Subcategories_Receive(slot, sid)
    \/ \E slot \in Slots : Subcategories_Select(slot)
    \/ \E slot \in Slots, sid \in Sessions : Sales_Receive(slot, sid)
    \/ \E slot \in Slots : Sales_Select(slot)
    \/ \E slot \in Slots, sid \in Sessions : BusinessInfo_Receive(slot, sid)
    \/ \E slot \in Slots : BusinessInfo_Select(slot)
    \/ \E slot \in Slots, sid \in Sessions, year \in Years :
         LastYear_Receive(slot, sid, year)
    \/ \E slot \in Slots : LastYear_Select(slot)
    \/ \E slot \in Slots, sid \in Sessions : NotOnMenu_Receive(slot, sid)
    \/ \E slot \in Slots : NotOnMenu_SelectTaken(slot)
    \/ \E slot \in Slots : NotOnMenu_SelectProducts(slot)
    \/ \E slot \in Slots, sid \in Sessions : MenuCounts_Receive(slot, sid)
    \/ \E slot \in Slots : MenuCounts_Select(slot)

Spec == Init /\ [][Next]_vars

(***************************************************************************)
(* The tenants at work: business 1 is logged in on s1 and business 2 on    *)
(* s2 (the state after two successful logins), business 1 has two products *)
(* on its menu and business 2 one, and menu items are added and deleted.   *)
(***************************************************************************)
UserOf(b) == [id |-> b, email |-> Registered[b].email]

InitTenants ==
    /\ business_info = Registered
    /\ products = Catalog
    /\ menu_items = ( 1 :> [business_id |-> 1, product_id |-> 1, price |-> 5] )
                 @@ ( 2 :> [business_id |-> 1, product_id |-> 2, price |-> 5] )
                 @@ ( 3 :> [business_id |-> 2, product_id |-> 2, price |-> 5] )
    /\ nextItemId = 4
    /\ sales = { [id_sale |-> 1, menu_item_id |-> 1, sold_at |-> Date(2025, Jun15)],
                 [id_sale |-> 2, menu_item_id |-> 2, sold_at |-> Date(2025, Jan01)],
                 [id_sale |-> 3, menu_item_id |-> 3, sold_at |-> Date(2024, Dec31)],
                 [id_sale |-> 4, menu_item_id |-> 3, sold_at |-> Date(2025, Dec31)] }
    /\ session = ( "s1" :> UserOf(1) ) @@ ( "s2" :> UserOf(2) )
    /\ req = [slot \in Slots |-> Idle]
    /\ budget = MaxRequests
    /\ logins = ( "s1" :> {1} ) @@ ( "s2" :> {2} )

NextTenants ==
    \/ \E slot \in Slots, sid \in Sessions, id \in ClientIds :
         Delete_Receive(slot, sid, id)
    \/ \E slot \in Slots : Delete_Sales(slot)
    \/ \E slot \in Slots : Delete_MenuItem(slot)
    \/ \E slot \in Slots, sid \in Sessions,
          product_id \in DOMAIN products \cup {0}, price \in Prices :
         Post_Receive(slot, sid, product_id, price)
    \/ \E slot \in Slots : Post_Insert(slot)

SpecTenants == InitTenants /\ [][NextTenants]_vars

(***************************************************************************)
(* The sales statistics.  Both businesses are logged in; the sales table   *)
(* holds any MaxSales or fewer sales of the three menu items, dated on and *)
(* around the first and last days of the years the endpoints count.  A     *)
(* behaviour is one request: the statistics endpoints write nothing.       *)
(***************************************************************************)
SaleDates == << Date(2023, Dec31), Date(2024, Jan01), Date(2024, Dec31),
                Date(2025, Jan01), Date(2025, Dec31), Date(2026, Jan01) >>

SalesMenu ==
    ( 1 :> [business_id |-> 1, product_id |-> 3, price |-> 5] )
 @@ ( 2 :> [business_id |-> 1, product_id |-> 1, price |-> 7] )
 @@ ( 3 :> [business_id |-> 2, product_id |-> 2, price |-> 5] )

\* The k-th kind of sale: a menu item and a date.
SaleKind(k) ==
    [menu_item_id |-> ((k - 1) \div Len(SaleDates)) + 1,
     sold_at      |-> SaleDates[((k - 1) % Len(SaleDates)) + 1]]

NonDecreasing(f) == \A i, j \in DOMAIN f : i <= j => f[i] <= f[j]

InitSales ==
    /\ business_info = Registered
    /\ products = Catalog
    /\ menu_items = SalesMenu
    /\ nextItemId = 4
    /\ \E n \in 0..MaxSales :
         \E f \in [1..n -> 1..(3 * Len(SaleDates))] :
           /\ NonDecreasing(f)
           /\ sales = { [id_sale      |-> i,
                         menu_item_id |-> SaleKind(f[i]).menu_item_id,
                         sold_at      |-> SaleKind(f[i]).sold_at] : i \in 1..n }
    /\ session = ( "s1" :> UserOf(1) ) @@ ( "s2" :> UserOf(2) )
    /\ req = [slot \in Slots |-> Idle]
    /\ budget = 1
    /\ logins = ( "s1" :> {1} ) @@ ( "s2" :> {2} )

NextSales ==
    \/ \E slot \in Slots, sid \in Sessions : Sales_Receive(slot, sid)
    \/ \E slot \in Slots : Sales_Select(slot)
    \/ \E slot \in Slots, sid \in Sessions, year \in Years :
         LastYear_Receive(slot, sid, year)
    \/ \E slot \in Slots : LastYear_Select(slot)

SpecSales == InitSales /\ [][NextSales]_vars

(***************************************************************************)
(* The menu against the catalog.  Both businesses are logged in; the       *)
(* menu_items table holds any MaxMenu or fewer rows, each of either        *)
(* business and any product; there are no sales.                           *)
(***************************************************************************)
\* The k-th kind of menu item: a business and a product.
MenuKind(k) ==
    [business_id |-> ((k - 1) \div Cardinality(DOMAIN Catalog)) + 1,
     product_id  |-> ((k - 1) % Cardinality(DOMAIN Catalog)) + 1,
     price       |-> 5]

InitCatalog ==
    /\ business_info = Registered
    /\ products = Catalog
    /\ \E n \in 0..MaxMenu :
         \E f \in [1..n -> 1..(2 * Cardinality(DOMAIN Catalog))] :
           /\ menu_items = [i \in 1..n |-> MenuKind(f[i])]
           /\ nextItemId = n + 1
    /\ sales = {}
    /\ session = ( "s1" :> UserOf(1) ) @@ ( "s2" :> UserOf(2) )
    /\ req = [slot \in Slots |-> Idle]
    /\ budget = 1
    /\ logins = ( "s1" :> {1} ) @@ ( "s2" :> {2} )

NextCatalog ==
    \/ \E slot \in Slots, sid \in Sessions : NotOnMenu_Receive(slot, sid)
    \/ \E slot \in Slots : NotOnMenu_SelectTaken(slot)
    \/ \E slot \in Slots : NotOnMenu_SelectProducts(slot)
    \/ \E slot \in Slots, sid \in Sessions : MenuCounts_Receive(slot, sid)
    \/ \E slot \in Slots : MenuCounts_Select(slot)

SpecCatalog == InitCatalog /\ [][NextCatalog]_vars

(***************************************************************************)
(* Repricing.  Business 1 is logged in on both sessions (two devices) and  *)
(* has the menu items 1 and 2 at price 5; business 2 has item 3.  Every    *)
(* PATCH sets items 1 and 2 to one new price, in either order, so a        *)
(* request handled alone leaves the two items at the same price.           *)
(***************************************************************************)
RepricePrices == {7, 9}

RepriceLists ==
    { << [id_menu_item |-> x, price |-> p], [id_menu_item |-> 3 - x, price |-> p] >> :
        x \in {1, 2}, p \in RepricePrices }

InitPatch ==
    /\ business_info = Registered
    /\ products = Catalog
    /\ menu_items = ( 1 :> [business_id |-> 1, product_id |-> 1, price |-> 5] )
                 @@ ( 2 :> [business_id |-> 1, product_id |-> 2, price |-> 5] )
                 @@ ( 3 :> [business_id |-> 2, product_id |-> 2, price |-> 5] )
    /\ nextItemId = 4
    /\ sales = {}
    /\ session = [s \in Sessions |-> UserOf(1)]
    /\ req = [slot \in Slots |-> Idle]
    /\ budget = MaxRequests
    /\ logins = [s \in Sessions |-> {1}]

NextPatch ==
    \/ \E slot \in Slots, sid \in Sessions, updates \in RepriceLists :
         Patch_Receive(slot, sid, TRUE, updates)
    \/ \E slot \in Slots : Patch_Update(slot)

SpecPatch == InitPatch /\ [][NextPatch]_vars

(***************************************************************************)
(*                              Properties                                 *)
(***************************************************************************)
Done(slot, kind) == req[slot].kind = kind /\ req[slot].pc = "done"

\* The step is one of the handler in `slot`, between receipt and response.
Stepping(slot) ==
    req[slot].pc \notin {"idle", "done"} /\ req'[slot] # req[slot]

Owns(businessId, m) ==
    m \in DOMAIN menu_items /\ menu_items[m].business_id = businessId

(***************************************************************************)
(* C1.  Cross-tenant access is impossible: no step of a request running    *)
(* under the session of business A changes a menu_items row owned by       *)
(* another business B, or the sales of such a row, whatever ids the client *)
(* supplied.                                                               *)
(***************************************************************************)
C1_OthersRowsKept(businessId) ==
    \A m \in DOMAIN menu_items :
        menu_items[m].business_id # businessId =>
            /\ m \in DOMAIN menu_items'
            /\ menu_items'[m] = menu_items[m]
            /\ { s \in sales' : s.menu_item_id = m } = SalesOf(m)

C1_CrossTenantIsolation ==
    [][ \A slot \in Slots :
          Stepping(slot) /\ req[slot].businessId # 0
              => C1_OthersRowsKept(req[slot].businessId) ]_vars

(***************************************************************************)
(* C2.  DELETE /api/menu-items/:id.  As claimed: a DELETE whose id names   *)
(* no menu item of the session's business answers 404 and leaves the       *)
(* menu_items table as it was, and a DELETE answers success only when its  *)
(* second store call deleted the row with that id and that business id.    *)
(* As amended: such a DELETE answers 404 when both store calls returned    *)
(* without error and 500 when one of them failed.                          *)
(***************************************************************************)
C2_DeleteStep(slot, statuses) ==
    LET r     == req[slot]
        owned == Owns(r.businessId, r.menuItemId)
    IN  r.kind = "delete" /\ Stepping(slot) =>
          /\ ~ owned => menu_items' = menu_items
          /\ ~ owned /\ req'[slot].pc = "done"
                => req'[slot].resp.status \in statuses
          /\ req'[slot].pc = "done" /\ req'[slot].resp.status = 200
                => /\ r.pc = "delete_menu_item"
                   /\ owned
                   /\ r.menuItemId \notin DOMAIN menu_items'
                   /\ \A m \in DOMAIN menu_items :
                        m # r.menuItemId => /\ m \in DOMAIN menu_items'
                                            /\ menu_items'[m] = menu_items[m]

C2_StatusOf(slot) ==
    IF req'[slot].saw = "error" THEN {500} ELSE {404}

C2_DeleteNotOwned_Original ==
    [][ \A slot \in Slots : C2_DeleteStep(slot, {404}) ]_vars

C2_DeleteNotOwned ==
    [][ \A slot \in Slots : C2_DeleteStep(slot, C2_StatusOf(slot)) ]_vars

C2_Witness ==
    \E slot \in Slots :
        /\ Done(slot, "delete")
        /\ req[slot].resp.status = 404
        /\ req[slot].menuItemId \in DOMAIN menu_items
        /\ menu_items[req[slot].menuItemId].business_id # req[slot].businessId

(***************************************************************************)
(* C3.  Referential cleanup: in every reachable state, also after a failed *)
(* store call and with DELETE requests interleaved, every sales row refers *)
(* to a menu item that exists.                                             *)
(***************************************************************************)
C3_NoOrphanSale ==
    \A s \in sales : s.menu_item_id \in DOMAIN menu_items

\* Two DELETEs of one menu item interleaved: one has deleted the item while
\* the other, its sales already deleted, has its second store call to come.
C3_Witness ==
    \E a, b \in Slots :
        /\ Done(a, "delete") /\ req[a].resp.status = 200
        /\ req[b].kind = "delete" /\ req[b].pc = "delete_menu_item"
        /\ req[b].menuItemId = req[a].menuItemId
        /\ req[a].menuItemId \notin DOMAIN menu_items

(***************************************************************************)
(* C4.  PATCH /api/menu-items issues one store update per element, in list *)
(* order.  When the store rejects the k-th update the prices are left as   *)
(* updates 1..k-1 set them, no further update is issued and the response   *)
(* is the one fixed 500; the response is success only when every update    *)
(* returned without error.                                                 *)
(***************************************************************************)
C4_Failure == [status |-> 500, msg |-> "Failed updating prices", data |-> << >>]

C4_PatchStep(slot) ==
    LET r == req[slot]
        n == req'[slot]
        u == r.updates[r.issued + 1]
    IN  r.kind = "patch" /\ Stepping(slot) =>
          /\ n.issued = r.issued + 1
          /\ n.ops = r.ops + 1
          /\ IF n.saw = "error"
             THEN /\ menu_items' = menu_items
                  /\ n.pc = "done"
                  /\ n.resp = C4_Failure
             ELSE /\ menu_items' =
                       [m \in DOMAIN menu_items |->
                          IF m = u.id_menu_item /\ Owns(r.businessId, m)
                          THEN [business_id |-> menu_items[m].business_id,
                                product_id  |-> menu_items[m].product_id,
                                price       |-> u.price]
                          ELSE menu_items[m]]
                  /\ IF n.issued = r.len
                     THEN n.pc = "done" /\ n.resp.status = 200
                     ELSE n.pc = "update_price" /\ n.updates = r.updates

C4_PatchDone(slot) ==
    LET r == req[slot]
    IN  Done(slot, "patch") /\ r.isArray =>
          /\ r.resp.status \in {200, 500}
          /\ r.resp.status = 500 =>
                /\ r.saw = "error"
                /\ r.issued \in 1..r.len
                /\ r.ops = r.issued
                /\ r.resp = C4_Failure
          /\ r.resp.status = 200 =>
                /\ r.saw # "error"
                /\ r.issued = r.len
                /\ r.ops = r.len

C4_PartialUpdate ==
    /\ [](\A slot \in Slots : C4_PatchDone(slot))
    /\ [][ \A slot \in Slots : C4_PatchStep(slot) ]_vars

\* The second of two updates was rejected; the first one's price stays.
C4_Witness ==
    \E slot \in Slots :
        /\ Done(slot, "patch")
        /\ req[slot].resp.status = 500
        /\ req[slot].issued = 2
        /\ \E m \in ItemsOf(req[slot].businessId) : menu_items[m].price = 7

(***************************************************************************)
(* C5.  Every endpoint other than complete-onboarding and login, requested *)
(* on a session that holds no user, answers 401 and issues no store call;  *)
(* a session holds a user only after a login on that session succeeded,    *)
(* and the business id a handler works with is one a login stored in its   *)
(* session.                                                                *)
(***************************************************************************)
C5_Open == {"none", "login", "complete-onboarding"}

C5_Receipt(slot) ==
    LET n == req'[slot]
    IN  Free(slot) /\ n # req[slot] /\ n.kind \notin C5_Open
          /\ session[n.sid] = NoUser
        => /\ n.pc = "done"
           /\ n.resp.status = 401
           /\ n.ops = 0
           /\ UNCHANGED Tables

C5_Scoped ==
    /\ \A slot \in Slots :
         req[slot].kind \notin C5_Open =>
            IF req[slot].businessId = 0
            THEN req[slot].pc = "done" /\ req[slot].resp.status = 401
                                       /\ req[slot].ops = 0
            ELSE req[slot].businessId \in logins[req[slot].sid]
    /\ \A s \in Sessions :
         /\ session[s] # NoUser => session[s].id \in logins[s]
         /\ logins[s] \subseteq DOMAIN business_info

C5_Authentication ==
    /\ []C5_Scoped
    /\ [][ \A slot \in Slots : C5_Receipt(slot) ]_vars

\* s1 is logged in, and a DELETE on s2, which holds no user, answered 401.
C5_Witness ==
    \E slot \in Slots :
        /\ Done(slot, "delete")
        /\ req[slot].resp.status = 401
        /\ session[req[slot].sid] = NoUser
        /\ \E s \in Sessions : session[s] # NoUser

(***************************************************************************)
(* C6.  POST /api/login does not reveal whether an email is registered: a  *)
(* login with a registered email and a wrong password and a login with an  *)
(* unregistered email get the same response, a 401, and neither of them    *)
(* writes the session.                                                     *)
(***************************************************************************)
C6_WrongPassword(r) ==
    \A b \in DOMAIN business_info :
        business_info[b].email = r.email
            => business_info[b].password # hashSync(r.password)

C6_SameResponse ==
    \A a, b \in Slots :
        /\ Done(a, "login") /\ req[a].saw = "no row"
        /\ Done(b, "login") /\ req[b].saw = "row" /\ C6_WrongPassword(req[b])
        => /\ req[a].resp = req[b].resp
           /\ req[a].resp.status = 401

C6_SessionKept(slot) ==
    /\ req[slot].kind = "login"
    /\ Stepping(slot)
    /\ \/ req'[slot].saw = "no row"
       \/ req'[slot].saw = "row" /\ C6_WrongPassword(req[slot])
    => session' = session

C6_NoEnumeration ==
    /\ []C6_SameResponse
    /\ [][ \A slot \in Slots : C6_SessionKept(slot) ]_vars

C6_Witness ==
    \E a, b \in Slots :
        /\ Done(a, "login") /\ req[a].saw = "no row"
        /\ Done(b, "login") /\ req[b].saw = "row" /\ C6_WrongPassword(req[b])
        /\ req[a].resp.status = 401 /\ req[b].resp.status = 401

(***************************************************************************)
(* Calendar reading of the sale dates, for the statistics claims: the year *)
(* a sale is dated in.                                                     *)
(***************************************************************************)
YearOf(date) == StrToNum(SubSeq(date, 1, 4))

SoldInYear(m, year) ==
    Cardinality({ s \in SalesOf(m) : YearOf(s.sold_at) = year })

AscendingIds(data) ==
    \A i, j \in DOMAIN data : i < j => data[i].id_menu_item < data[j].id_menu_item

HasSubcategory(m) == products[menu_items[m].product_id].id_subcategory # 0

C8_SalesStats ==
    \A slot \in Slots :
        Done(slot, "sales") /\ req[slot].resp.status = 200 =>
            LET data  == req[slot].resp.data
                items == ItemsOf(req[slot].businessId)
            IN  /\ Len(data) = Cardinality(items)
                /\ \A m \in items :
                     \E i \in DOMAIN data :
                        /\ data[i].id_menu_item = m
                        /\ data[i].total_sold = SoldInYear(m, 2025)
                        /\ data[i].last_year_sold = SoldInYear(m, 2024)
                        /\ data[i].total_sold + data[i].last_year_sold
                             = Cardinality({ s \in SalesOf(m) :
                                   YearOf(s.sold_at) \in {2024, 2025} })
                        /\ data[i].total_sold + data[i].last_year_sold
                             <= Cardinality(SalesOf(m))

\* Every sale of an item is dated on the first or the last day of 2025 and
\* every one of them is counted.
C8_Witness ==
    \E slot \in Slots :
        /\ Done(slot, "sales") /\ req[slot].resp.status = 200
        /\ \E i \in DOMAIN req[slot].resp.data :
             LET e == req[slot].resp.data[i]
             IN  /\ e.total_sold = 2
                 /\ \E s, t \in SalesOf(e.id_menu_item) :
                       /\ s.sold_at = Date(2025, Jan01)
                       /\ t.sold_at = Date(2025, Dec31)

(***************************************************************************)
(* C9.  GET /api/items-not-on-menu returns exactly the products that are   *)
(* the product of no menu item of the session's business, ascending by     *)
(* name; with no menu item the whole catalog is returned.                  *)
(***************************************************************************)
C9_NotOnMenu ==
    \A slot \in Slots :
        Done(slot, "items-not-on-menu") /\ req[slot].resp.status = 200 =>
            LET data  == req[slot].resp.data
                items == ItemsOf(req[slot].businessId)
                free  == { p \in DOMAIN products :
                             \A m \in items : menu_items[m].product_id # p }
            IN  /\ { data[i].id : i \in DOMAIN data } = free
                /\ Len(data) = Cardinality(free)
                /\ \A i, j \in DOMAIN data :
                     i < j => StrLeq(data[i].name, data[j].name)
                /\ \A i \in DOMAIN data : data[i].name = products[data[i].id].name
                /\ items = {} => Len(data) = Cardinality(DOMAIN products)

\* A business without menu items is answered with the three products.
C9_Witness ==
    \E slot \in Slots :
        /\ Done(slot, "items-not-on-menu") /\ req[slot].resp.status = 200
        /\ ItemsOf(req[slot].businessId) = {}
        /\ menu_items # << >>
        /\ Len(req[slot].resp.data) = 3

(***************************************************************************)
(* C10.  GET /api/menu-counts is determined by the menu item rows, in      *)
(* whatever order the store hands them over: one entry per category name   *)
(* present, ascending by category name, each count_on_menu the number of   *)
(* rows of that category, at least 1, the counts summing to the number of  *)
(* rows.                                                                   *)
(***************************************************************************)
CategoryOf(m) == categories[products[menu_items[m].product_id].id_category].category_name

RECURSIVE SumCounts(_)
SumCounts(data) ==
    IF data = << >> THEN 0 ELSE Head(data).count_on_menu + SumCounts(Tail(data))

C10_MenuCounts ==
    \A slot \in Slots :
        Done(slot, "menu-counts") /\ req[slot].resp.status = 200 =>
            LET data  == req[slot].resp.data
                items == ItemsOf(req[slot].businessId)
                cats  == { CategoryOf(m) : m \in items }
            IN  /\ Len(data) = Cardinality(cats)
                /\ \A c \in cats :
                     \E i \in DOMAIN data :
                        /\ data[i].category = c
                        /\ data[i].count_on_menu =
                             Cardinality({ m \in items : CategoryOf(m) = c })
                /\ \A i \in DOMAIN data : data[i].count_on_menu >= 1
                /\ \A i, j \in DOMAIN data :
                     i < j => StrLess(data[i].category, data[j].category)
                /\ SumCounts(data) = Cardinality(items)

\* Three rows in two categories, the rows of the later category first.
C10_Witness ==
    \E slot \in Slots :
        /\ Done(slot, "menu-counts") /\ req[slot].resp.status = 200
        /\ Len(req[slot].resp.data) = 2
        /\ req[slot].resp.data[2].count_on_menu = 2
        /\ Cardinality(ItemsOf(req[slot].businessId)) = 3
        /\ \A m \in ItemsOf(req[slot].businessId) :
              CategoryOf(m) = req[slot].resp.data[1].category => m = 3

(***************************************************************************)
(* C11.  PATCH batches are not isolated from each other.  Each row update  *)
(* is its own store call, changing at most one row, and the calls of two   *)
(* requests of one business may alternate.  Requests handled one after     *)
(* the other, the last of them answering success, leave items 1 and 2 at   *)
(* the same price (the price of the last request); two requests handled    *)
(* at the same time can both answer success and leave item 1 at the price  *)
(* of one and item 2 at the price of the other.                            *)
(***************************************************************************)
\* No request arrived while another was being handled: the second slot
\* was never taken, every request ran from receipt to response alone.
C11_Serial == req[2].kind = "none"

C11_Mixed ==
    /\ menu_items[1].price \in RepricePrices
    /\ menu_items[2].price \in RepricePrices
    /\ menu_items[1].price # menu_items[2].price

C11_SerialOutcome ==
    /\ C11_Serial /\ Done(1, "patch") /\ req[1].resp.status = 200
         => /\ menu_items[1].price = menu_items[2].price
            /\ menu_items[1].price \in RepricePrices
    /\ menu_items[3].price = 5

C11_OneRowPerCall(slot) ==
    req[slot].kind = "patch" /\ Stepping(slot) =>
       /\ DOMAIN menu_items' = DOMAIN menu_items
       /\ Cardinality({ m \in DOMAIN menu_items :
                           menu_items'[m] # menu_items[m] }) <= 1
       /\ \A m \in DOMAIN menu_items :
             menu_items'[m] # menu_items[m] =>
                m = req[slot].updates[req[slot].issued + 1].id_menu_item

C11_NotIsolated ==
    /\ []C11_SerialOutcome
    /\ [][ \A slot \in Slots : C11_OneRowPerCall(slot) ]_vars

\* Two requests of business 1 were in flight together, both answered
\* success after both of their updates, and items 1 and 2 ended at the
\* two different prices.
C11_Witness ==
    /\ \A slot \in Slots :
          /\ Done(slot, "patch")
          /\ req[slot].businessId = 1
          /\ req[slot].resp.status = 200
          /\ req[slot].issued = 2
    /\ C11_Mixed

====
